---- MODULE Spec2Model ----
(***************************************************************************)
(* A model of synthplayer/synth.py: the note/frequency tables and the      *)
(* WaveSynth facade (construction, validation, oscillator selection, the   *)
(* finite and the streaming entry points).                                 *)
(*                                                                         *)
(* Python strings are sequences of one-character strings, so that          *)
(* note[-1:], note[:-1], str.upper() and int() are computed, not assumed.  *)
(* A Python call either returns a value or raises: a result is a record    *)
(* [kind |-> "ok", val |-> v] or [kind |-> <exception name>, val |-> None].*)
(***************************************************************************)
EXTENDS Integers, Sequences, FiniteSets, TLC

VARIABLES
    params,     \* the process-wide defaults (module params)
    ctorArgs,   \* the arguments of the WaveSynth(...) construction
    ws,         \* the WaveSynth instance (or the failed construction)
    args,       \* the arguments of the waveform calls of this run
    finite,     \* the finite call X(..., duration) and its outcome
    streams,    \* the generators returned by X_gen(...), by stream id
    direct,     \* a WhiteNoise oscillator used without WaveSynth
    ncall,      \* a call of key_num / note_freq / major_chord_keys
    nres        \* its outcome

vars == <<params, ctorArgs, ws, args, finite, streams, direct, ncall, nres>>

\* Python's None, and an Optional value: <<>> or <<v>>
None == <<>>
Some(v) == <<v>>

Ok(v) == [kind |-> "ok", val |-> v]
Raise(e) == [kind |-> e, val |-> None]

(***************************************************************************)
(* Strings                                                                 *)
(***************************************************************************)
LowerCase == <<"a", "b", "c", "d", "e", "f", "g", "h", "x">>
UpperCase == <<"A", "B", "C", "D", "E", "F", "G", "H", "X">>

\* str.upper() on one character
UpperChar(c) ==
    IF \E i \in 1..Len(LowerCase) : LowerCase[i] = c
    THEN UpperCase[CHOOSE i \in 1..Len(LowerCase) : LowerCase[i] = c]
    ELSE c

\* str.upper()
Upper(s) == [i \in 1..Len(s) |-> UpperChar(s[i])]

\* str.lower() on one character (used to enumerate the spellings of a note)
LowerChar(c) ==
    IF \E i \in 1..Len(UpperCase) : UpperCase[i] = c
    THEN LowerCase[CHOOSE i \in 1..Len(UpperCase) : UpperCase[i] = c]
    ELSE c

Lower(s) == [i \in 1..Len(s) |-> LowerChar(s[i])]

Digits == <<"0", "1", "2", "3", "4", "5", "6", "7", "8", "9">>

IsDigit(c) == \E i \in 1..Len(Digits) : Digits[i] = c

\* int(s) for a string of at most one character: a decimal digit parses,
\* anything else (the empty string included) raises ValueError
ParseInt(s) ==
    IF Len(s) = 1 /\ IsDigit(s[1])
    THEN Ok((CHOOSE i \in 1..Len(Digits) : Digits[i] = s[1]) - 1)
    ELSE Raise("ValueError")

\* str(o) for a single-digit o
DigitStr(o) == <<Digits[o + 1]>>

\* s[-1:]
LastChars(s) == IF Len(s) = 0 THEN <<>> ELSE <<s[Len(s)]>>

\* s[:-1]
ButLast(s) == IF Len(s) = 0 THEN <<>> ELSE SubSeq(s, 1, Len(s) - 1)

\* a dict as a sequence of <<key, value>> pairs; d[k] raises KeyError
HasKey(d, k) == \E i \in 1..Len(d) : d[i][1] = k

Lookup(d, k) ==
    IF HasKey(d, k)
    THEN Ok(d[CHOOSE i \in 1..Len(d) : d[i][1] = k][2])
    ELSE Raise("KeyError")

(***************************************************************************)
(* The note tables                                                         *)
(***************************************************************************)
octave_notes ==
    << <<"C">>, <<"C", "#">>, <<"D">>, <<"D", "#">>, <<"E">>, <<"F">>,
       <<"F", "#">>, <<"G">>, <<"G", "#">>, <<"A">>, <<"A", "#">>, <<"B">> >>

note_alias ==
    << << <<"C">>,           <<"C">> >>,
       << <<"C", "#">>,      <<"C", "#">> >>,
       << <<"C", "#", "#">>, <<"D">> >>,
       << <<"D">>,           <<"D">> >>,
       << <<"D", "#">>,      <<"D", "#">> >>,
       << <<"E">>,           <<"E">> >>,
       << <<"E", "#">>,      <<"F">> >>,
       << <<"F">>,           <<"F">> >>,
       << <<"F", "#">>,      <<"F", "#">> >>,
       << <<"F", "#", "#">>, <<"G">> >>,
       << <<"G">>,           <<"G">> >>,
       << <<"G", "#">>,      <<"G", "#">> >>,
       << <<"G", "#", "#">>, <<"A">> >>,
       << <<"A">>,           <<"A">> >>,
       << <<"A", "#">>,      <<"A", "#">> >>,
       << <<"B">>,           <<"B">> >>,
       << <<"B", "#">>,      <<"C">> >> >>

\* root |-> <<the four chord notes, the four octave offsets>>
major_chords ==
    << << <<"C">>,      << << <<"C">>, <<"E">>, <<"G">>, <<"B">> >>,                          <<0, 0, 0, 0>> >> >>,
       << <<"C", "#">>, << << <<"C", "#">>, <<"E", "#">>, <<"G", "#">>, <<"B", "#">> >>,      <<0, 0, 0, 1>> >> >>,
       << <<"D">>,      << << <<"D">>, <<"F", "#">>, <<"A">>, <<"C">> >>,                     <<0, 0, 0, 1>> >> >>,
       << <<"D", "#">>, << << <<"D", "#">>, <<"F", "#", "#">>, <<"A", "#">>, <<"C", "#", "#">> >>, <<0, 0, 0, 1>> >> >>,
       << <<"E">>,      << << <<"E">>, <<"G", "#">>, <<"B">>, <<"D", "#">> >>,                <<0, 0, 0, 1>> >> >>,
       << <<"F">>,      << << <<"F">>, <<"A">>, <<"C">>, <<"E">> >>,                          <<0, 0, 1, 1>> >> >>,
       << <<"F", "#">>, << << <<"F", "#">>, <<"A", "#">>, <<"C", "#">>, <<"E", "#">> >>,      <<0, 0, 1, 1>> >> >>,
       << <<"G">>,      << << <<"G">>, <<"B">>, <<"D">>, <<"F", "#">> >>,                     <<0, 0, 1, 1>> >> >>,
       << <<"G", "#">>, << << <<"G", "#">>, <<"B", "#">>, <<"D", "#">>, <<"F", "#", "#">> >>, <<0, 1, 1, 1>> >> >>,
       << <<"A">>,      << << <<"A">>, <<"C", "#">>, <<"E">>, <<"G", "#">> >>,                <<0, 1, 1, 1>> >> >>,
       << <<"A", "#">>, << << <<"A", "#">>, <<"C", "#", "#">>, <<"E", "#">>, <<"G", "#", "#">> >>, <<0, 1, 1, 1>> >> >>,
       << <<"B">>,      << << <<"B">>, <<"D", "#">>, <<"F", "#">>, <<"A", "#">> >>,           <<0, 1, 1, 1>> >> >> >>

\* the dict local to key_num
key_num_notes ==
    << << <<"C">>, 4 >>,       << <<"C", "#">>, 5 >>,  << <<"D">>, 6 >>,
       << <<"D", "#">>, 7 >>,  << <<"E">>, 8 >>,       << <<"F">>, 9 >>,
       << <<"F", "#">>, 10 >>, << <<"G">>, 11 >>,      << <<"G", "#">>, 12 >>,
       << <<"A">>, 13 >>,      << <<"A", "#">>, 14 >>, << <<"B">>, 15 >> >>

\* note_alias[key] of a chord note, pushed through major_chord_keys
AliasOf(key) == Lookup(note_alias, key)

\* mutant: the chord notes are returned as spelled, without note_alias
major_chord_keys_unaliased(rootnote, octave) ==
    LET entry == Lookup(major_chords, Upper(rootnote))
    IN  IF entry.kind # "ok" THEN entry
        ELSE Ok([i \in 1..4 |-> <<entry.val[1][i], octave + entry.val[2][i]>>])

major_chord_keys(rootnote, octave) ==
    LET entry == Lookup(major_chords, Upper(rootnote))
    IN  IF entry.kind # "ok" THEN entry
        ELSE LET keys    == entry.val[1]
                 octaves == entry.val[2]
                 al      == [i \in 1..4 |-> AliasOf(keys[i])]
             IN  IF \E i \in 1..4 : al[i].kind # "ok"
                 THEN Raise("KeyError")
                 ELSE Ok([i \in 1..4 |-> <<al[i].val, octave + octaves[i]>>])

\* mutant: notes.get(note.upper(), 4) instead of notes[note.upper()]
key_num_get(note, octave) ==
    LET n == Lookup(key_num_notes, Upper(note))
    IN  Ok((octave - 1) * 12 + (IF n.kind = "ok" THEN n.val ELSE 4))

key_num(note, octave) ==
    LET n == Lookup(key_num_notes, Upper(note))
    IN  IF n.kind # "ok" THEN n
        ELSE Ok((octave - 1) * 12 + n.val)

\* 2**((key_number-49)/12) * a4 is kept exact as the pair (a4, key_number-49):
\* the value is a4 * 2^(semitones/12), which is a4 itself when semitones = 0,
\* and two such values with the same a4 are equal iff the semitones are.
key_freq(key_number, a4) == [a4 |-> a4, semitones |-> key_number - 49]

\* "if not octave", octave an Optional[int]: None and 0 are both falsy
Falsy(octave) == octave = None \/ octave = Some(0)

note_freq(note, octave, a4) ==
    IF Falsy(octave)
    THEN LET o == ParseInt(LastChars(note))
         IN  IF o.kind # "ok" THEN o
             ELSE LET k == key_num(ButLast(note), o.val)
                  IN  IF k.kind # "ok" THEN k ELSE Ok(key_freq(k.val, a4))
    ELSE LET k == key_num(note, octave[1])
         IN  IF k.kind # "ok" THEN k ELSE Ok(key_freq(k.val, a4))

(***************************************************************************)
(* The note functions as a state machine: a call is drawn, then made.      *)
(***************************************************************************)
MaxOctave == 9

Range(seq) == {seq[i] : i \in 1..Len(seq)}

\* the spellings tried: the twelve notes in upper and lower case, the
\* enharmonic spellings that only note_alias knows, and unknown symbols
KnownNames == Range(octave_notes)
AliasOnly == {d[1] : d \in Range(note_alias)} \ KnownNames
Unknown == { <<>>, <<"H">>, <<"X", "#">>, <<"C", "b">> }
BaseNames == KnownNames \cup {Lower(n) : n \in KnownNames} \cup AliasOnly \cup Unknown
NoteStrings == BaseNames \cup {n \o <<Digits[d]>> : n \in BaseNames, d \in 1..Len(Digits)}
Octaves == (0 - 1)..MaxOctave
A4s == {440, 442}

Idle == [fn |-> "idle"]
Pending == [kind |-> "pending", val |-> None]

NoteCalls ==
    [fn : {"key_num", "major_chord_keys"}, note : NoteStrings,
     octave : {Some(o) : o \in Octaves}, a4 : {440}]
    \cup
    [fn : {"note_freq"}, note : NoteStrings,
     octave : {None} \cup {Some(o) : o \in Octaves}, a4 : A4s]

InitNotes ==
    /\ ncall \in NoteCalls
    /\ nres = Pending
    /\ params = None /\ ctorArgs = None /\ ws = None /\ args = None
    /\ finite = None /\ streams = None /\ direct = None

OthersIdle == UNCHANGED <<params, ctorArgs, ws, args, finite, streams, direct>>

Call_key_num ==
    /\ ncall.fn = "key_num" /\ nres.kind = "pending"
    /\ nres' = key_num(ncall.note, ncall.octave[1])
    /\ UNCHANGED ncall /\ OthersIdle

Call_note_freq ==
    /\ ncall.fn = "note_freq" /\ nres.kind = "pending"
    /\ nres' = note_freq(ncall.note, ncall.octave, ncall.a4)
    /\ UNCHANGED ncall /\ OthersIdle

Call_major_chord_keys ==
    /\ ncall.fn = "major_chord_keys" /\ nres.kind = "pending"
    /\ nres' = major_chord_keys(ncall.note, ncall.octave[1])
    /\ UNCHANGED ncall /\ OthersIdle

NextNotes == Call_key_num \/ Call_note_freq \/ Call_major_chord_keys

SpecNotes == InitNotes /\ [][NextNotes]_vars

(***************************************************************************)
(* Numbers.  A Python float is kept as an exact rational [n, d] (d > 0, in *)
(* lowest terms); the inputs are drawn so that every float of a run is a   *)
(* rational the arithmetic represents exactly.  A value that has been      *)
(* multiplied by the quantization scale is kept as the pair [r, s],        *)
(* meaning r * s, because r.n * s does not fit a 32-bit integer when       *)
(* s = 2^31 - 1.                                                           *)
(***************************************************************************)
Abs(x) == IF x < 0 THEN 0 - x ELSE x

\* F(e), with e evaluated once and F applied to its value (a local variable
\* of the code is assigned once and read many times)
Bind(e, F(_)) == CHOOSE y \in {F(x) : x \in {e}} : TRUE

RECURSIVE GCD(_, _)
GCD(a, b) == IF b = 0 THEN a ELSE GCD(b, a % b)

Rat(n, d) ==
    LET g  == GCD(Abs(n), Abs(d))
        sg == IF d < 0 THEN 0 - 1 ELSE 1
    IN  [n |-> (sg * n) \div g, d |-> (sg * d) \div g]

RatInt(k) == [n |-> k, d |-> 1]
RatAdd(x, y) == Rat(x.n * y.d + y.n * x.d, x.d * y.d)
RatNeg(x) == [n |-> 0 - x.n, d |-> x.d]
RatSub(x, y) == RatAdd(x, RatNeg(y))
RatMul(x, y) == Rat(x.n * y.n, x.d * y.d)
RatAbs(x) == [n |-> Abs(x.n), d |-> x.d]
RatLeq(x, y) == x.n * y.d <= y.n * x.d
RatLt(x, y) == x.n * y.d < y.n * x.d
RatFloor(x) == x.n \div x.d
\* x mod 1
RatFrac(x) == RatSub(x, RatInt(RatFloor(x)))

\* round(x): to the nearest integer, a tie to the even one
Round(x) ==
    LET f    == RatFloor(x)
        twice == RatMul(RatInt(2), RatSub(x, RatInt(f)))
    IN  IF twice.n < twice.d THEN f
        ELSE IF twice.n > twice.d THEN f + 1
        ELSE IF f % 2 = 0 THEN f ELSE f + 1

\* the float r * s
Fl(r, s) == [r |-> r, s |-> s]
\* x + y and x <= y for two floats; they carry the same factor s whenever
\* both come out of one WaveSynth call
FlAdd(x, y) ==
    IF x.s = y.s THEN Fl(RatAdd(x.r, y.r), x.s)
    ELSE Fl(RatAdd(RatMul(x.r, RatInt(x.s)), RatMul(y.r, RatInt(y.s))), 1)
FlAbs(x) == Fl(RatAbs(x.r), x.s)
FlLeq(x, y) ==
    IF x.s = y.s THEN RatLeq(x.r, y.r)
    ELSE RatLeq(RatMul(x.r, RatInt(x.s)), RatMul(y.r, RatInt(y.s)))
\* the rational a float stands for (used for floats whose factor is 1)
FlRat(x) == IF x.s = 1 THEN x.r ELSE RatMul(x.r, RatInt(x.s))

\* int(x): truncation toward zero.  Python's int is unbounded and 2 * scale
\* exceeds 32 bits, so the integer is kept as sign and two digits to the
\* base 2^16: sgn * (hi * 65536 + lo).
Base == 256 * 256

IntOf(x) ==
    LET a  == Abs(x.r.n)
        d  == x.r.d
        t1 == a * (x.s \div Base)
        t0 == a * (x.s % Base)
        q1 == t1 \div d
        q0 == ((t1 % d) * Base + t0) \div d
        hi == q1 + (q0 \div Base)
        lo == q0 % Base
    IN  [sgn |-> IF hi = 0 /\ lo = 0 THEN 0 ELSE IF x.r.n < 0 THEN 0 - 1 ELSE 1,
         hi |-> hi, lo |-> lo]

(***************************************************************************)
(* The oscillators (module oscillators).  An oscillator is the record of   *)
(* its constructor arguments; blocks() makes a running generator over it.  *)
(***************************************************************************)
Half == Rat(1, 2)
One == RatInt(1)
Zero == RatInt(0)

\* sin over one period t in [0,1).  sin itself is not computable here: the
\* model takes the parabola through the same zeros and peaks,
\* 4x(1-x) on the first half period and its negative on the second.
SinShape(t) ==
    LET x == IF RatLt(t, Half) THEN RatMul(RatInt(2), t)
             ELSE RatSub(RatMul(RatInt(2), t), One)
        y == RatMul(RatInt(4), RatMul(x, RatSub(One, x)))
    IN  IF RatLt(t, Half) THEN y ELSE RatNeg(y)

Sign(x) == IF x.n > 0 THEN One ELSE IF x.n < 0 THEN RatNeg(One) ELSE Zero

SquareShape(t) == Sign(SinShape(t))

TriangleShape(t) ==
    IF RatLt(t, Rat(1, 4)) THEN RatMul(RatInt(4), t)
    ELSE IF RatLt(t, Rat(3, 4)) THEN RatSub(RatInt(2), RatMul(RatInt(4), t))
    ELSE RatSub(RatMul(RatInt(4), t), RatInt(4))

SawtoothShape(t) == RatSub(RatMul(RatInt(2), t), One)

\* half-circle profile and inverted-cosine spike, by rational stand-ins
SemicircleShape(t) ==
    LET x == RatSub(RatMul(RatInt(2), t), One) IN RatSub(One, RatMul(x, x))

PointyShape(t) == RatSub(One, RatMul(RatInt(2), RatAbs(SinShape(t))))

PulseShape(t, width) == IF RatLt(t, width) THEN One ELSE RatNeg(One)

\* sum of weight * sin(multiplier * t) over (multiplier, weight) pairs,
\* divided by the sum of the weights
RECURSIVE HarmonicSum(_, _, _)
HarmonicSum(hs, k, t) ==
    IF k = 0 THEN Zero
    ELSE RatAdd(HarmonicSum(hs, k - 1, t),
                RatMul(hs[k][2], SinShape(RatFrac(RatMul(RatInt(hs[k][1]), t)))))
RECURSIVE WeightSum(_, _)
WeightSum(hs, k) ==
    IF k = 0 THEN Zero ELSE RatAdd(WeightSum(hs, k - 1), RatAbs(hs[k][2]))

HarmonicsShape(hs, t) ==
    IF Len(hs) = 0 THEN Zero
    ELSE LET w == WeightSum(hs, Len(hs))
             v == HarmonicSum(hs, Len(hs), t)
         IN  IF w.n = 0 THEN Zero ELSE Rat(v.n * w.d, v.d * w.n)

\* the odd harmonics 1, 3, 5, ... with weights 1/k (square_h) and all
\* harmonics 1, 2, 3, ... with weights 1/k (sawtooth_h)
OddHarmonics(num) == [i \in 1..num |-> <<2 * i - 1, Rat(1, 2 * i - 1)>>]
AllHarmonics(num) == [i \in 1..num |-> <<i, Rat(1, i)>>]

ExactClasses == {"Sine", "Square", "Triangle", "Sawtooth", "Pulse", "Semicircle",
                 "Pointy", "SquareH", "SawtoothH", "Harmonics"}
FastClasses == {"FastSine", "FastSquare", "FastTriangle", "FastSawtooth",
                "FastPulse", "FastSemicircle", "FastPointy"}

\* the constructor arguments an oscillator class may take beyond
\* (frequency, amplitude, phase, bias, samplerate)
NoExtras == [fm_lfo |-> None, pwm_lfo |-> None, pulsewidth |-> None,
             num_harmonics |-> None, harmonics |-> None]

Oscillator(cls, frequency, amplitude, phase, bias, samplerate, extras) ==
    [cls |-> cls, frequency |-> frequency, amplitude |-> amplitude,
     phase |-> phase, bias |-> bias, samplerate |-> samplerate,
     fm_lfo |-> extras.fm_lfo, pwm_lfo |-> extras.pwm_lfo,
     pulsewidth |-> extras.pulsewidth, num_harmonics |-> extras.num_harmonics,
     harmonics |-> extras.harmonics]

\* osc.blocks(): a generator that has not run yet.  n counts the samples
\* produced, acc is the accumulated phase (in periods), held the noise value
\* of the current cycle; a modulation source is started along with its owner
\* and read once per sample of the owner.
RECURSIVE blocks(_)
blocks(osc) ==
    [osc |-> osc, started |-> FALSE, n |-> 0, acc |-> osc.phase, held |-> Zero,
     fm |-> IF osc.fm_lfo = None THEN None ELSE Some(blocks(osc.fm_lfo[1])),
     pwm |-> IF osc.pwm_lfo = None THEN None ELSE Some(blocks(osc.pwm_lfo[1]))]

Clip01(x) == IF RatLt(x, Zero) THEN Zero ELSE IF RatLt(One, x) THEN One ELSE x

ShapeOf(osc, t, width) ==
    CASE osc.cls \in {"Sine", "FastSine"}             -> SinShape(t)
      [] osc.cls \in {"Square", "FastSquare"}         -> SquareShape(t)
      [] osc.cls \in {"Triangle", "FastTriangle"}     -> TriangleShape(t)
      [] osc.cls \in {"Sawtooth", "FastSawtooth"}     -> SawtoothShape(t)
      [] osc.cls \in {"Semicircle", "FastSemicircle"} -> SemicircleShape(t)
      [] osc.cls \in {"Pointy", "FastPointy"}         -> PointyShape(t)
      [] osc.cls \in {"Pulse", "FastPulse"}           -> PulseShape(t, width)
      [] osc.cls = "SquareH"   -> HarmonicsShape(OddHarmonics(osc.num_harmonics[1]), t)
      [] osc.cls = "SawtoothH" -> HarmonicsShape(AllHarmonics(osc.num_harmonics[1]), t)
      [] osc.cls = "Harmonics" -> HarmonicsShape(osc.harmonics[1], t)

\* one sample of a running oscillator: [v |-> the float, run |-> the
\* generator after it].  rnd is the random value drawn if the sample opens a
\* noise cycle.
\*   Exact: phase[n] = phase[n-1] + (frequency + fm_sample[n]) / samplerate,
\*          value[n] = f(phase[n]) * amplitude + bias
\*   Fast:  the phase of sample n is phase + n * frequency / samplerate
RECURSIVE NextSample(_, _)
NextSample(run, rnd) ==
    Bind(IF run.fm = None THEN None ELSE Some(NextSample(run.fm[1], rnd)), LAMBDA fmS :
    Bind(IF run.pwm = None THEN None ELSE Some(NextSample(run.pwm[1], rnd)), LAMBDA pwmS :
    Bind(IF fmS = None THEN Zero ELSE FlRat(fmS[1].v), LAMBDA fmv :
    Bind(IF run.osc.cls \in ExactClasses
         THEN RatAdd(run.acc, Rat(fmv.n + run.osc.frequency * fmv.d,
                                  fmv.d * run.osc.samplerate))
         ELSE RatAdd(run.osc.phase,
                     Rat(run.n * run.osc.frequency, run.osc.samplerate)), LAMBDA acc1 :
    LET osc   == run.osc
        width == IF pwmS # None THEN Clip01(FlRat(pwmS[1].v))
                 ELSE IF osc.pulsewidth = None THEN Zero ELSE osc.pulsewidth[1]
        cycle == osc.samplerate \div osc.frequency
        held1 == IF osc.cls = "WhiteNoise" /\ run.n % cycle = 0 THEN rnd ELSE run.held
        f     == IF osc.cls = "WhiteNoise" THEN held1
                 ELSE ShapeOf(osc, RatFrac(acc1), width)
    IN  [v   |-> FlAdd(Fl(RatMul(f, osc.amplitude.r), osc.amplitude.s), osc.bias),
         run |-> [run EXCEPT !.started = TRUE, !.n = run.n + 1, !.acc = acc1,
                             !.held = held1,
                             !.fm = IF fmS = None THEN None ELSE Some(fmS[1].run),
                             !.pwm = IF pwmS = None THEN None ELSE Some(pwmS[1].run)]]))))

\* the next k samples; draws[i] is the random value on offer to the i-th
RECURSIVE Samples(_, _, _)
Samples(run, k, draws) ==
    IF k = 0 THEN [block |-> <<>>, run |-> run]
    ELSE Bind(Samples(run, k - 1, draws), LAMBDA before :
         Bind(NextSample(before.run, draws[k]), LAMBDA s :
              [block |-> Append(before.block, s.v), run |-> s.run]))

\* the size of a block (params.norm_osc_blocksize), scaled down
norm_osc_blocksize == 2

\* mutant: white noise refuses a frequency that does not divide the samplerate
NextBlock_divisible(run, draws) ==
    IF /\ run.osc.cls = "WhiteNoise" /\ ~run.started
       /\ run.osc.samplerate % run.osc.frequency # 0
    THEN Raise("ValueError")
    ELSE Ok(Samples(run, norm_osc_blocksize, draws))

\* next(osc.blocks()).  WhiteNoise.blocks() starts by computing the cycle
\* length int(samplerate / frequency) and raises ValueError when it is below
\* one sample; no other oscillator fails.
NextBlock(run, draws) ==
    IF /\ run.osc.cls = "WhiteNoise" /\ ~run.started
       /\ run.osc.samplerate \div run.osc.frequency < 1
    THEN Raise("ValueError")
    ELSE Ok(Samples(run, norm_osc_blocksize, draws))

\* list(map(int, block))
IntBlock(block) == [i \in 1..Len(block) |-> IntOf(block[i])]

(***************************************************************************)
(* Sample.from_oscillator(osc, duration) (module sample): the first        *)
(* round(duration * samplerate) samples of the oscillator's blocks, each   *)
(* truncated to an integer.                                                *)
(***************************************************************************)
CeilDiv(a, b) == (a + b - 1) \div b

\* the first nb blocks of a generator, concatenated; draws are the random
\* values on offer, one per sample
RECURSIVE TakeBlocks(_, _, _)
TakeBlocks(run, nb, draws) ==
    IF nb = 0 THEN Ok([block |-> <<>>, run |-> run])
    ELSE Bind(TakeBlocks(run, nb - 1, draws), LAMBDA before :
              IF before.kind # "ok" THEN before
              ELSE Bind(NextBlock(before.val.run,
                                  SubSeq(draws, (nb - 1) * norm_osc_blocksize + 1,
                                         nb * norm_osc_blocksize)), LAMBDA b :
                        IF b.kind # "ok" THEN b
                        ELSE Ok([block |-> before.val.block \o b.val.block,
                                 run |-> b.val.run])))

from_oscillator(osc, duration, draws) ==
    Bind(Round(RatMul(duration, RatInt(osc.samplerate))), LAMBDA required :
    Bind(blocks(osc), LAMBDA gen :
    Bind(TakeBlocks(gen, CeilDiv(required, norm_osc_blocksize), draws), LAMBDA got :
         IF got.kind # "ok" THEN got
         ELSE Bind(SubSeq(got.val.block, 1, required), LAMBDA block :
                   Ok(IntBlock(block))))))

(***************************************************************************)
(* WaveSynth                                                               *)
(***************************************************************************)
\* x or y, for integers: 0 is falsy
PyOr(x, y) == IF x = 0 THEN y ELSE x

\* mutant: self.samplerate = samplerate, without the process default
WaveSynth__init__nodefault(samplerate, samplewidth, p) ==
    LET w == PyOr(samplewidth, p.norm_samplewidth)
    IN  IF w \notin {2, 4} THEN Raise("ValueError")
        ELSE Ok([samplerate |-> samplerate, samplewidth |-> w])

\* WaveSynth(samplerate, samplewidth), p the module params
WaveSynth__init__(samplerate, samplewidth, p) ==
    LET w == PyOr(samplewidth, p.norm_samplewidth)
    IN  IF w \notin {2, 4} THEN Raise("ValueError")
        ELSE Ok([samplerate |-> PyOr(samplerate, p.norm_samplerate),
                 samplewidth |-> w])

\* 2 ** k - 1, without the intermediate 2 ** k (2 ** 31 is no 32-bit integer)
RECURSIVE Pow2m1(_)
Pow2m1(k) == IF k = 0 THEN 0 ELSE 2 * Pow2m1(k - 1) + 1

\* mutant: the Nyquist assertion is missing
check_and_get_scale_nofreq(self, freq, amplitude, bias) ==
    IF ~(RatLeq(Zero, amplitude) /\ RatLeq(amplitude, One))
    THEN Raise("AssertionError")
    ELSE IF ~(RatLeq(RatNeg(One), bias) /\ RatLeq(bias, One))
    THEN Raise("AssertionError")
    ELSE Ok(Pow2m1(self.samplewidth * 8 - 1))

\* mutant: the bias assertion is missing
check_and_get_scale_nobias(self, freq, amplitude, bias) ==
    IF ~RatLeq(RatInt(freq), Rat(self.samplerate, 2))
    THEN Raise("AssertionError")
    ELSE IF ~(RatLeq(Zero, amplitude) /\ RatLeq(amplitude, One))
    THEN Raise("AssertionError")
    ELSE Ok(Pow2m1(self.samplewidth * 8 - 1))

check_and_get_scale(self, freq, amplitude, bias) ==
    IF ~RatLeq(RatInt(freq), Rat(self.samplerate, 2))
    THEN Raise("AssertionError")
    ELSE IF ~(RatLeq(Zero, amplitude) /\ RatLeq(amplitude, One))
    THEN Raise("AssertionError")
    ELSE IF ~(RatLeq(RatNeg(One), bias) /\ RatLeq(bias, One))
    THEN Raise("AssertionError")
    ELSE Ok(Pow2m1(self.samplewidth * 8 - 1))

\* "if fm_lfo:" an Oscillator object is truthy, None is not
Truthy(lfo) == lfo # None

\* mutant: the Fast oscillator is built whether or not fm_lfo is given
TwoStrategies_fast(self, exact, fast, frequency, amplitude, phase, bias, fm_lfo) ==
    LET scale == check_and_get_scale(self, frequency, amplitude, bias)
    IN  IF scale.kind # "ok" THEN scale
        ELSE Ok(Oscillator(fast, frequency, Fl(amplitude, scale.val), phase,
                           Fl(bias, scale.val), self.samplerate, NoExtras))

\* the body shared by __sine, __semicircle, __pointy, __square, __triangle
\* and __sawtooth, which differ in the two classes they name
TwoStrategies(self, exact, fast, frequency, amplitude, phase, bias, fm_lfo) ==
    LET scale == check_and_get_scale(self, frequency, amplitude, bias)
    IN  IF scale.kind # "ok" THEN scale
        ELSE IF Truthy(fm_lfo)
        THEN Ok(Oscillator(exact, frequency, Fl(amplitude, scale.val), phase,
                           Fl(bias, scale.val), self.samplerate,
                           [NoExtras EXCEPT !.fm_lfo = fm_lfo]))
        ELSE Ok(Oscillator(fast, frequency, Fl(amplitude, scale.val), phase,
                           Fl(bias, scale.val), self.samplerate, NoExtras))

WaveSynth__sine(self, frequency, amplitude, phase, bias, fm_lfo) ==
    TwoStrategies(self, "Sine", "FastSine", frequency, amplitude, phase, bias, fm_lfo)

WaveSynth__semicircle(self, frequency, amplitude, phase, bias, fm_lfo) ==
    TwoStrategies(self, "Semicircle", "FastSemicircle", frequency, amplitude, phase, bias, fm_lfo)

WaveSynth__pointy(self, frequency, amplitude, phase, bias, fm_lfo) ==
    TwoStrategies(self, "Pointy", "FastPointy", frequency, amplitude, phase, bias, fm_lfo)

WaveSynth__square(self, frequency, amplitude, phase, bias, fm_lfo) ==
    TwoStrategies(self, "Square", "FastSquare", frequency, amplitude, phase, bias, fm_lfo)

WaveSynth__triangle(self, frequency, amplitude, phase, bias, fm_lfo) ==
    TwoStrategies(self, "Triangle", "FastTriangle", frequency, amplitude, phase, bias, fm_lfo)

WaveSynth__sawtooth(self, frequency, amplitude, phase, bias, fm_lfo) ==
    TwoStrategies(self, "Sawtooth", "FastSawtooth", frequency, amplitude, phase, bias, fm_lfo)

WaveSynth__square_h(self, frequency, num_harmonics, amplitude, phase, bias, fm_lfo) ==
    LET scale == check_and_get_scale(self, frequency, amplitude, bias)
    IN  IF scale.kind # "ok" THEN scale
        ELSE Ok(Oscillator("SquareH", frequency, Fl(amplitude, scale.val), phase,
                           Fl(bias, scale.val), self.samplerate,
                           [NoExtras EXCEPT !.fm_lfo = fm_lfo,
                                            !.num_harmonics = Some(num_harmonics)]))

WaveSynth__sawtooth_h(self, frequency, num_harmonics, amplitude, phase, bias, fm_lfo) ==
    LET scale == check_and_get_scale(self, frequency, amplitude, bias)
    IN  IF scale.kind # "ok" THEN scale
        ELSE Ok(Oscillator("SawtoothH", frequency, Fl(amplitude, scale.val), phase,
                           Fl(bias, scale.val), self.samplerate,
                           [NoExtras EXCEPT !.fm_lfo = fm_lfo,
                                            !.num_harmonics = Some(num_harmonics)]))

WaveSynth__pulse(self, frequency, amplitude, phase, bias, pulsewidth, fm_lfo, pwm_lfo) ==
    IF ~(RatLeq(Zero, pulsewidth) /\ RatLeq(pulsewidth, One))
    THEN Raise("AssertionError")
    ELSE LET scale == check_and_get_scale(self, frequency, amplitude, bias)
         IN  IF scale.kind # "ok" THEN scale
             ELSE IF Truthy(fm_lfo)
             THEN Ok(Oscillator("Pulse", frequency, Fl(amplitude, scale.val), phase,
                                Fl(bias, scale.val), self.samplerate,
                                [NoExtras EXCEPT !.pulsewidth = Some(pulsewidth),
                                                 !.fm_lfo = fm_lfo,
                                                 !.pwm_lfo = pwm_lfo]))
             ELSE Ok(Oscillator("FastPulse", frequency, Fl(amplitude, scale.val), phase,
                                Fl(bias, scale.val), self.samplerate,
                                [NoExtras EXCEPT !.pulsewidth = Some(pulsewidth),
                                                 !.pwm_lfo = pwm_lfo]))

WaveSynth__harmonics(self, frequency, harmonics, amplitude, phase, bias, fm_lfo) ==
    LET scale == check_and_get_scale(self, frequency, amplitude, bias)
    IN  IF scale.kind # "ok" THEN scale
        ELSE Ok(Oscillator("Harmonics", frequency, Fl(amplitude, scale.val), phase,
                           Fl(bias, scale.val), self.samplerate,
                           [NoExtras EXCEPT !.fm_lfo = fm_lfo,
                                            !.harmonics = Some(harmonics)]))

\* WhiteNoise takes no phase
WaveSynth__white_noise(self, frequency, amplitude, bias) ==
    LET scale == check_and_get_scale(self, frequency, amplitude, bias)
    IN  IF scale.kind # "ok" THEN scale
        ELSE Ok(Oscillator("WhiteNoise", frequency, Fl(amplitude, scale.val), Zero,
                           Fl(bias, scale.val), self.samplerate, NoExtras))

\* the private method that the public pair X / X_gen of a waveform calls,
\* on the arguments a of the call
PrivateWave(self, a) ==
    CASE a.wave = "sine" ->
            WaveSynth__sine(self, a.frequency, a.amplitude, a.phase, a.bias, a.fm_lfo)
      [] a.wave = "square" ->
            WaveSynth__square(self, a.frequency, a.amplitude, a.phase, a.bias, a.fm_lfo)
      [] a.wave = "square_h" ->
            WaveSynth__square_h(self, a.frequency, a.num_harmonics, a.amplitude,
                                a.phase, a.bias, a.fm_lfo)
      [] a.wave = "triangle" ->
            WaveSynth__triangle(self, a.frequency, a.amplitude, a.phase, a.bias, a.fm_lfo)
      [] a.wave = "sawtooth" ->
            WaveSynth__sawtooth(self, a.frequency, a.amplitude, a.phase, a.bias, a.fm_lfo)
      [] a.wave = "sawtooth_h" ->
            WaveSynth__sawtooth_h(self, a.frequency, a.num_harmonics, a.amplitude,
                                  a.phase, a.bias, a.fm_lfo)
      [] a.wave = "pulse" ->
            WaveSynth__pulse(self, a.frequency, a.amplitude, a.phase, a.bias,
                             a.pulsewidth, a.fm_lfo, a.pwm_lfo)
      [] a.wave = "harmonics" ->
            WaveSynth__harmonics(self, a.frequency, a.harmonics, a.amplitude,
                                 a.phase, a.bias, a.fm_lfo)
      [] a.wave = "white_noise" ->
            WaveSynth__white_noise(self, a.frequency, a.amplitude, a.bias)
      [] a.wave = "semicircle" ->
            WaveSynth__semicircle(self, a.frequency, a.amplitude, a.phase, a.bias, a.fm_lfo)
      [] a.wave = "pointy" ->
            WaveSynth__pointy(self, a.frequency, a.amplitude, a.phase, a.bias, a.fm_lfo)

(***************************************************************************)
(* The calls on a WaveSynth as a state machine.  One set of call arguments *)
(* is drawn per run; the finite call and the streams of the run are all    *)
(* made with it, each with modulation oscillators of its own.              *)
(***************************************************************************)
\* the process defaults params.norm_samplerate and params.norm_samplewidth
norm_samplerate == 8
norm_samplewidth == 2

MaxBlocks == 2
MaxStreams == 1
\* amplitudes, biases and pulse widths are multiples of 1 / Unit
Unit == 2

StreamIds == 1..MaxStreams

Waveforms == {"sine", "square", "square_h", "triangle", "sawtooth", "sawtooth_h",
              "pulse", "harmonics", "white_noise", "semicircle", "pointy"}

\* below, at and above the Nyquist frequency, at and above the samplerate;
\* 3 divides neither 8 nor 4, sr \div 4 and sr \div 2 divide 8
Frequencies(sr) == {sr \div 4, 3, sr \div 2, sr \div 2 + 1, sr, sr + 1}
Amplitudes == {Rat(0 - 1, Unit), Rat(1, Unit), One, Rat(Unit + 1, Unit)}
Biases == {Rat(0 - (Unit + 1), Unit), RatNeg(One), Zero, One, Rat(Unit + 1, Unit)}
Phases == {Zero}
PulseWidths == {Rat(1, Unit), One, Rat(Unit + 1, Unit)}
\* the two values a uniform draw from [-1, 1] is represented by
RandMenu == {RatNeg(One), One}

\* modulation sources as a caller builds them, at the synth's samplerate
FmLfo(sr) == Oscillator("FastSquare", 1, Fl(One, 1), Zero, Fl(Zero, 1), sr, NoExtras)
PwmLfo(sr) == Oscillator("FastTriangle", 1, Fl(One, 1), Zero, Fl(Zero, 1), sr, NoExtras)

CallArgs(sr) ==
    LET common == [frequency : Frequencies(sr), amplitude : Amplitudes, bias : Biases]
        With(wave, c, phase, fm, pwm, pw, nh, hs) ==
            [wave |-> wave, frequency |-> c.frequency, amplitude |-> c.amplitude,
             bias |-> c.bias, phase |-> phase, fm_lfo |-> fm, pwm_lfo |-> pwm,
             pulsewidth |-> pw, num_harmonics |-> nh, harmonics |-> hs]
        Fms == {None, Some(FmLfo(sr))}
        Pwms == {None, Some(PwmLfo(sr))}
    IN  {With(w, c, ph, fm, None, Zero, 0, <<>>) :
            w \in {"sine", "square", "triangle", "sawtooth", "semicircle", "pointy"},
            c \in common, ph \in Phases, fm \in Fms}
        \cup {With(w, c, ph, fm, None, Zero, 2, <<>>) :
            w \in {"square_h", "sawtooth_h"}, c \in common, ph \in Phases, fm \in Fms}
        \cup {With("harmonics", c, ph, fm, None, Zero, 0, << <<1, One>>, <<2, Half>> >>) :
            c \in common, ph \in Phases, fm \in Fms}
        \cup {With("pulse", c, ph, fm, pwm, pw, 0, <<>>) :
            c \in common, ph \in Phases, fm \in Fms, pwm \in Pwms, pw \in PulseWidths}
        \cup {With("white_noise", c, Zero, None, None, Zero, 0, <<>>) : c \in common}

NoCall == [kind |-> "none", osc |-> None, duration |-> Zero, frames |-> <<>>]
Unused == [state |-> "unused", exc |-> None, run |-> None, out |-> <<>>]
NoDirect == [kind |-> "none", out |-> <<>>]

TheParams == [norm_samplerate |-> norm_samplerate, norm_samplewidth |-> norm_samplewidth]

InitWith(waves) ==
    /\ params = TheParams
    /\ ctorArgs \in [samplerate : {0}, samplewidth : {0, 4}]
    /\ ws = WaveSynth__init__(ctorArgs.samplerate, ctorArgs.samplewidth, params)
    /\ args \in {a \in CallArgs(ws.val.samplerate) : a.wave \in waves}
    /\ finite = NoCall
    /\ streams = [i \in StreamIds |-> Unused]
    /\ direct = NoDirect
    /\ ncall = Idle /\ nres = Pending

Init == InitWith(Waveforms)

\* the random values on offer to len samples: noise draws, others ignore them
DrawSeqs(a, len) ==
    IF a.wave = "white_noise" THEN [1..len -> RandMenu] ELSE {[j \in 1..len |-> Zero]}

\* X(..., duration):
\*     wave = self.__X(...)
\*     return Sample.from_oscillator(wave, duration)
\* wave is the outcome of self.__X(...): the call raises what it raised, and
\* otherwise returns (or raises) what from_oscillator does
FiniteCall(wave, duration, draws) ==
    IF wave.kind # "ok"
    THEN [kind |-> wave.kind, osc |-> None, duration |-> duration, frames |-> <<>>]
    ELSE Bind(from_oscillator(wave.val, duration, draws), LAMBDA smp :
              [kind |-> smp.kind, osc |-> Some(wave.val), duration |-> duration,
               frames |-> IF smp.kind = "ok" THEN smp.val ELSE <<>>])

\* one finite call per run, of any duration k / samplerate up to MaxBlocks blocks
Finite ==
    /\ ws.kind = "ok"
    /\ finite.kind = "none"
    /\ \E k \in 1..(MaxBlocks * norm_osc_blocksize) :
       \E draws \in DrawSeqs(args, CeilDiv(k, norm_osc_blocksize) * norm_osc_blocksize) :
       \E wave \in {PrivateWave(ws.val, args)} :
           finite' = FiniteCall(wave, Rat(k, ws.val.samplerate), draws)
    /\ UNCHANGED <<params, ctorArgs, ws, args, streams, direct, ncall, nres>>

\* X_gen(...): calling a generator function runs none of its body
Gen(i) ==
    /\ ws.kind = "ok"
    /\ streams[i].state = "unused"
    /\ streams' = [streams EXCEPT ![i] = [Unused EXCEPT !.state = "created"]]
    /\ UNCHANGED <<params, ctorArgs, ws, args, finite, direct, ncall, nres>>

\* mutant: "yield block" instead of "yield list(map(int, block))"
Yield_raw(block) == block

\* yield list(map(int, block))
Yield(block) == IntBlock(block)

\* mutant: one oscillator is kept and handed to every generator, which
\* goes on from where the oscillator has been left
GenStart_shared(st, wave) ==
    IF wave.kind # "ok"
    THEN [st EXCEPT !.state = "failed", !.exc = Some(wave.kind)]
    ELSE LET started == {j \in DOMAIN streams : streams[j].run # None}
         IN  IF started = {}
             THEN [st EXCEPT !.state = "running", !.run = Some(blocks(wave.val))]
             ELSE [st EXCEPT !.state = "running",
                             !.run = streams[CHOOSE j \in started : TRUE].run]

\* the first next(gen) runs the body from its top; wave is the outcome of
\*     wave = self.__X(...).blocks()
\* and an exception there ends the generator before its loop
GenStart(st, wave) ==
    IF wave.kind # "ok"
    THEN [st EXCEPT !.state = "failed", !.exc = Some(wave.kind)]
    ELSE [st EXCEPT !.state = "running", !.run = Some(blocks(wave.val))]

\* one turn of the loop of a started generator; block is the outcome of
\*     block = next(wave)
\* and the turn ends in
\*     yield list(map(int, block))
GenLoop(st, block) ==
    IF st.state # "running" THEN st
    ELSE IF block.kind # "ok"
    THEN [st EXCEPT !.state = "failed", !.exc = Some(block.kind)]
    ELSE [st EXCEPT !.run = Some(block.val.run),
                    !.out = Append(st.out, Yield(block.val.block))]

\* next(gen)
Pull(i) ==
    /\ streams[i].state \in {"created", "running"}
    /\ Len(streams[i].out) < MaxBlocks
    /\ \E draws \in DrawSeqs(args, norm_osc_blocksize) :
       \E st \in {IF streams[i].state = "created"
                  THEN GenStart(streams[i], PrivateWave(ws.val, args))
                  ELSE streams[i]} :
       \E block \in {IF st.state = "running" THEN NextBlock(st.run[1], draws)
                     ELSE Raise("StopIteration")} :
           streams' = [streams EXCEPT ![i] = GenLoop(st, block)]
    /\ UNCHANGED <<params, ctorArgs, ws, args, finite, direct, ncall, nres>>

Next == Finite \/ (\E i \in StreamIds : Gen(i)) \/ (\E i \in StreamIds : Pull(i))

Spec == Init /\ [][Next]_vars

(***************************************************************************)
(* Several streams of one WaveSynth, pulled in any order, beside the       *)
(* finite call.  The waveforms are the deterministic ones; every call is   *)
(* made with the arguments of the run and modulation sources of its own.   *)
(***************************************************************************)
\* one stream more than Spec follows
Interleaved == 1..(MaxStreams + 1)

InitStreams ==
    /\ params = TheParams
    /\ ctorArgs \in [samplerate : {0}, samplewidth : {0, 4}]
    /\ ws = WaveSynth__init__(ctorArgs.samplerate, ctorArgs.samplewidth, params)
    /\ args \in {a \in CallArgs(ws.val.samplerate) : a.wave # "white_noise"}
    /\ finite = NoCall
    /\ streams = [i \in Interleaved |-> Unused]
    /\ direct = NoDirect
    /\ ncall = Idle /\ nres = Pending

NextStreams ==
    \/ Finite
    \/ \E i \in Interleaved : Gen(i)
    \/ \E i \in Interleaved : Pull(i)

SpecStreams == InitStreams /\ [][NextStreams]_vars

(***************************************************************************)
(* White noise, through WaveSynth and on the oscillator itself             *)
(***************************************************************************)
\* WhiteNoise(frequency, samplerate=samplerate): amplitude 1.0 and bias 0.0
WhiteNoise(frequency, samplerate) ==
    Oscillator("WhiteNoise", frequency, Fl(One, 1), Zero, Fl(Zero, 1), samplerate, NoExtras)

\* wn = WhiteNoise(f, samplerate=sr); list(itertools.islice(wn.blocks(), n))
DirectBlocks(frequency, samplerate, n, draws) ==
    Bind(blocks(WhiteNoise(frequency, samplerate)), LAMBDA gen :
    Bind(TakeBlocks(gen, n, draws), LAMBDA got :
         [kind |-> got.kind, out |-> IF got.kind = "ok" THEN got.val.block ELSE <<>>]))

DirectNoise ==
    /\ ws.kind = "ok"
    /\ direct.kind = "none"
    /\ \E draws \in [1..(MaxBlocks * norm_osc_blocksize) -> RandMenu] :
           direct' = DirectBlocks(args.frequency, ws.val.samplerate, MaxBlocks, draws)
    /\ UNCHANGED <<params, ctorArgs, ws, args, finite, streams, ncall, nres>>

InitNoise == InitWith({"white_noise"})

NextNoise == Next \/ DirectNoise

SpecNoise == InitNoise /\ [][NextNoise]_vars

(***************************************************************************)
(* The construction of a WaveSynth                                         *)
(***************************************************************************)
InitCtor ==
    /\ params \in [norm_samplerate : {norm_samplerate, norm_samplerate + 1},
                   norm_samplewidth : 1..4]
    /\ ctorArgs \in [samplerate : {0, 6, norm_samplerate}, samplewidth : 0..5]
    /\ ws = Pending
    /\ args = None /\ finite = NoCall /\ streams = [i \in StreamIds |-> Unused]
    /\ direct = NoDirect
    /\ ncall = Idle /\ nres = Pending

Construct ==
    /\ ws.kind = "pending"
    /\ ws' = WaveSynth__init__(ctorArgs.samplerate, ctorArgs.samplewidth, params)
    /\ UNCHANGED <<params, ctorArgs, args, finite, streams, direct, ncall, nres>>

NextCtor == Construct

SpecInit == InitCtor /\ [][NextCtor]_vars

(***************************************************************************)
(* Claims about WaveSynth calls (checked under Spec)                       *)
(***************************************************************************)
RECURSIVE Flatten(_)
Flatten(bs) == IF bs = <<>> THEN <<>> ELSE Flatten(ButLast(bs)) \o bs[Len(bs)]

FullScale == Pow2m1(ws.val.samplewidth * 8 - 1)

AmplitudeInRange == RatLeq(Zero, args.amplitude) /\ RatLeq(args.amplitude, One)
BiasInRange == RatLeq(RatNeg(One), args.bias) /\ RatLeq(args.bias, One)
BelowNyquist == 2 * args.frequency <= ws.val.samplerate

\* the oscillators that the calls of the run have constructed
Built ==
    (IF finite.osc = None THEN {} ELSE {finite.osc[1]})
    \cup {streams[i].run[1].osc : i \in {j \in StreamIds : streams[j].run # None}}

\* C1: for every waveform but white noise, called with the same parameters,
\* and every N >= 1: the first N blocks pulled from X_gen(...), concatenated,
\* equal element for element the frame array of the finite call
\* X(..., duration = N * blocksize / samplerate).
C1_StreamEqualsFinite ==
    \A i \in StreamIds : \A N \in 1..MaxBlocks :
        (/\ args.wave # "white_noise"
         /\ finite.kind # "none"
         /\ finite.duration = Rat(N * norm_osc_blocksize, ws.val.samplerate)
         /\ Len(streams[i].out) >= N)
        => /\ finite.kind = "ok"
           /\ Len(finite.frames) = N * norm_osc_blocksize
           /\ Flatten(SubSeq(streams[i].out, 1, N)) = finite.frames

\* a frequency- and width-modulated pulse has been streamed for MaxBlocks
\* blocks and materialized for the same length, with samples that differ
C1_Witness ==
    /\ args.wave = "pulse" /\ args.fm_lfo # None /\ args.pwm_lfo # None
    /\ Len(streams[1].out) = MaxBlocks
    /\ finite.kind = "ok"
    /\ Len(finite.frames) = MaxBlocks * norm_osc_blocksize
    /\ \E j \in 2..Len(finite.frames) : finite.frames[j] # finite.frames[1]

\* C2: if amplitude is outside [0,1], or bias outside [-1,1], or frequency
\* above samplerate/2, the finite call fails at the call, with no oscillator
\* constructed and no frame delivered, and a stream fails at its first pull:
\* it is never running, holds no oscillator and has yielded no block.
C2_InvalidFailsEagerly ==
    ~(AmplitudeInRange /\ BiasInRange /\ BelowNyquist)
    => /\ finite.kind # "none" =>
              (finite.kind = "AssertionError" /\ finite.osc = None /\ finite.frames = <<>>)
       /\ \A i \in StreamIds :
              /\ streams[i].state \in {"unused", "created", "failed"}
              /\ streams[i].state = "failed" => streams[i].exc = Some("AssertionError")
              /\ streams[i].run = None
              /\ streams[i].out = <<>>

\* only the bias is out of range, and both the finite call and the first
\* pull of a stream have failed
C2_Witness ==
    /\ AmplitudeInRange /\ BelowNyquist /\ ~BiasInRange
    /\ finite.kind = "AssertionError"
    /\ streams[1].state = "failed"

\* C3 (as claimed): every oscillator constructed by a call that passed
\* validation has amplitude*scale + |bias*scale| <= scale.
C3_ScaledWithinRange ==
    \A osc \in Built :
        FlLeq(FlAdd(osc.amplitude, FlAbs(osc.bias)), Fl(One, FullScale))

\* C4 (as claimed): for the waveforms that offer both strategies, the Exact
\* oscillator is constructed whenever fm_lfo or pwm_lfo is supplied and the
\* Fast one only when neither is; a Fast oscillator has no fm source.
C4_ExactWheneverModulated ==
    \A osc \in Built :
        args.wave \notin {"square_h", "sawtooth_h", "harmonics", "white_noise"}
        => /\ (args.fm_lfo # None \/ args.pwm_lfo # None) <=> osc.cls \in ExactClasses
           /\ osc.cls \in FastClasses => osc.fm_lfo = None

\* C4 (amended): for the waveforms that offer both strategies, the Exact
\* oscillator is constructed if and only if fm_lfo is supplied, and is given
\* it; otherwise the Fast oscillator is constructed, without an fm source;
\* pulse hands its pwm_lfo to whichever of the two it constructs.
C4_ExactIffFm ==
    \A osc \in Built :
        args.wave \notin {"square_h", "sawtooth_h", "harmonics", "white_noise"}
        => /\ osc.cls \in ExactClasses \cup FastClasses
           /\ args.fm_lfo # None <=> osc.cls \in ExactClasses
           /\ osc.cls \in ExactClasses => osc.fm_lfo = args.fm_lfo
           /\ osc.cls \in FastClasses => osc.fm_lfo = None
           /\ osc.pwm_lfo = args.pwm_lfo

\* pulse with a pwm_lfo and no fm_lfo has constructed a FastPulse holding
\* the pwm_lfo, in the finite call and in a stream
C4_Witness ==
    /\ args.wave = "pulse" /\ args.fm_lfo = None /\ args.pwm_lfo # None
    /\ finite.osc # None /\ finite.osc[1].cls = "FastPulse"
    /\ finite.osc[1].pwm_lfo # None
    /\ streams[1].run # None /\ streams[1].run[1].osc.cls = "FastPulse"

\* the random values on offer to a waveform that draws none
ZeroDraws == [j \in 1..(MaxBlocks * norm_osc_blocksize) |-> Zero]

\* the frames of the first n blocks that a generator over the oscillator
\* osc yields when nothing else is pulled: each next(gen) takes the next
\* block of osc.blocks() and yields list(map(int, block))
Alone(osc, n) ==
    Bind(blocks(osc), LAMBDA gen :
    Bind(TakeBlocks(gen, n, ZeroDraws), LAMBDA got : IntBlock(got.val.block)))

\* the private builder's outcome for the call of the run with another
\* pulsewidth
OtherPulse(pw) == PrivateWave(ws.val, [args EXCEPT !.pulsewidth = pw])

\* the outcome here is the outcome there: both failed alike, or both built
\* an oscillator of the same class
SameSelection(here, there) ==
    /\ (here = None) <=> (there = None)
    /\ here # None => here[1].cls = there[1].cls

\* C11 (as claimed): with a pwm_lfo supplied to pulse or pulse_gen, the
\* pulsewidth argument is ignored: a call that differs only in the
\* pulsewidth value has the same outcome (success or failure, selected
\* oscillator class, produced samples).
C11_PulsewidthIgnored ==
    (args.wave = "pulse" /\ args.pwm_lfo # None)
    => \A pw \in PulseWidths :
       \A wave \in {OtherPulse(pw)} :
          /\ finite.kind # "none" =>
                 \A other \in {FiniteCall(wave, finite.duration, ZeroDraws)} :
                     /\ other.kind = finite.kind
                     /\ SameSelection(finite.osc, other.osc)
                     /\ other.frames = finite.frames
          /\ \A i \in StreamIds :
                 /\ streams[i].state = "failed" => wave.kind = streams[i].exc[1]
                 /\ streams[i].state = "running" =>
                        /\ wave.kind = "ok"
                        /\ Flatten(streams[i].out) = Alone(wave.val, Len(streams[i].out))

Divides == ws.val.samplerate % args.frequency = 0

\* the calls of the run on the WaveSynth that have been made have all
\* produced samples
NoiseProduced ==
    /\ finite.kind \in {"none", "ok"}
    /\ finite.kind = "ok" =>
           Len(finite.frames) = Round(RatMul(finite.duration, RatInt(ws.val.samplerate)))
    /\ \A i \in StreamIds :
           /\ streams[i].state \in {"unused", "created", "running"}
           /\ streams[i].state = "running" => Len(streams[i].out) >= 1

\* the calls of the run on the WaveSynth that have been made have all
\* failed the validation, before an oscillator or a sample
NoiseRefused ==
    /\ finite.kind \in {"none", "AssertionError"}
    /\ finite.osc = None /\ finite.frames = <<>>
    /\ \A i \in StreamIds :
           /\ streams[i].state \in {"unused", "created", "failed"}
           /\ streams[i].state = "failed" => streams[i].exc = Some("AssertionError")
           /\ streams[i].out = <<>>

\* C5 (as claimed): white_noise and white_noise_gen succeed for
\* frequency = samplerate and for every positive frequency that divides the
\* samplerate, with amplitude and bias in range.
C5_DividingSucceeds ==
    (AmplitudeInRange /\ BiasInRange /\ args.frequency > 0 /\ Divides)
    => NoiseProduced

\* C5 (amended): with amplitude and bias in range, white_noise and
\* white_noise_gen succeed for every positive frequency that divides the
\* samplerate and is at most samplerate/2; for frequency = samplerate they
\* fail the Nyquist assertion, and only WhiteNoise(samplerate).blocks()
\* itself produces blocks.
C5_DividingBelowNyquistSucceeds ==
    (AmplitudeInRange /\ BiasInRange /\ args.frequency > 0 /\ Divides)
    => /\ BelowNyquist => NoiseProduced
       /\ args.frequency = ws.val.samplerate =>
              /\ NoiseRefused
              /\ direct.kind \in {"none", "ok"}
              /\ direct.kind = "ok" => Len(direct.out) = MaxBlocks * norm_osc_blocksize

\* frequency = samplerate / 2 with amplitude and bias in range: the finite
\* call has returned its frames and a stream has yielded MaxBlocks blocks
C5_Witness ==
    /\ AmplitudeInRange /\ BiasInRange
    /\ 2 * args.frequency = ws.val.samplerate
    /\ finite.kind = "ok" /\ Len(finite.frames) >= 1
    /\ streams[1].state = "running" /\ Len(streams[1].out) = MaxBlocks

C7_Construction ==
    ws.kind # "pending"
    => LET width == IF ctorArgs.samplewidth = 0 THEN params.norm_samplewidth
                    ELSE ctorArgs.samplewidth
       IN  /\ ws.kind # "ok" <=> width \notin {2, 4}
           /\ ws.kind # "ok" => (ws.kind = "ValueError" /\ ws.val = None)
           /\ ws.kind = "ok" =>
                  /\ ws.val.samplewidth = width /\ width \in {2, 4}
                  /\ ws.val.samplerate = IF ctorArgs.samplerate # 0
                                          THEN ctorArgs.samplerate
                                          ELSE params.norm_samplerate

\* both arguments omitted: the instance has the process defaults
C7_Witness ==
    /\ ctorArgs.samplerate = 0 /\ ctorArgs.samplewidth = 0
    /\ params.norm_samplewidth = 4
    /\ ws.kind = "ok"
    /\ ws.val.samplerate = params.norm_samplerate /\ ws.val.samplewidth = 4

(***************************************************************************)
(* Claims about the note functions (checked under SpecNotes)               *)
(***************************************************************************)
Done == nres.kind # "pending"

\* the symbol of the call is one its lookup table knows (after upper())
KnownSymbol(note) == Upper(note) \in KnownNames

\* C8 (as claimed): for every note of the twelve-entry table and every
\* single-digit octave o in 0..9, note_freq(note, o) returns the frequency of
\* key_num(note, o), the same value as note_freq(note + str(o)); 'A4' and
\* ('A', 4) resolve to key 49, whose frequency is exactly a4.
C8_BothFormsAgree ==
    (/\ Done /\ ncall.fn = "note_freq"
     /\ ncall.note \in KnownNames
     /\ ncall.octave \in {Some(o) : o \in 0..9})
    => LET o == ncall.octave[1]
           k == key_num(ncall.note, o)
       IN  /\ nres.kind = "ok"
           /\ k.kind = "ok"
           /\ nres = Ok(key_freq(k.val, ncall.a4))
           /\ nres = note_freq(ncall.note \o DigitStr(o), None, ncall.a4)
           /\ (ncall.note = <<"A">> /\ o = 4) =>
                  (k.val = 49 /\ nres.val.semitones = 0 /\ nres.val.a4 = ncall.a4)

\* C9: for each of the twelve roots, in any letter case, and every octave,
\* major_chord_keys returns four (note, octave) pairs; every note is a member
\* of octave_notes (so key_num accepts it), the first pair is the root (in its
\* canonical upper-case spelling) at the given octave, every octave is the
\* given one or the next, as the root's pattern says; ("C", 4) gives
\* (("C",4),("E",4),("G",4),("B",4)).
C9_ChordKeys ==
    (/\ Done /\ ncall.fn = "major_chord_keys" /\ KnownSymbol(ncall.note))
    => LET o == ncall.octave[1]
           pattern == Lookup(major_chords, Upper(ncall.note)).val[2]
       IN  /\ nres.kind = "ok"
           /\ Len(nres.val) = 4
           /\ \A i \in 1..4 :
                /\ nres.val[i][1] \in KnownNames
                /\ key_num(nres.val[i][1], nres.val[i][2]).kind = "ok"
                /\ nres.val[i][2] \in {o, o + 1}
                /\ nres.val[i][2] = o + pattern[i]
           /\ nres.val[1] = <<Upper(ncall.note), o>>
           /\ (Upper(ncall.note) = <<"C">> /\ o = 4) =>
                  nres.val = << << <<"C">>, 4 >>, << <<"E">>, 4 >>,
                                << <<"G">>, 4 >>, << <<"B">>, 4 >> >>

\* a lower-case root whose chord holds an enharmonic spelling (B# -> C) in
\* the next octave has been resolved
C9_Witness ==
    /\ Done /\ ncall.fn = "major_chord_keys"
    /\ ncall.note = <<"c", "#">> /\ ncall.octave = Some(3)
    /\ nres.kind = "ok"
    /\ nres.val[4] = << <<"C">>, 4 >>

\* the call names a symbol that its lookup table does not hold; for the
\* combined form of note_freq the symbol is the string without its last
\* character, and a last character that is no digit is unknown as well
UnknownSymbolCall ==
    IF ncall.fn = "note_freq" /\ ncall.octave = None
    THEN \/ ParseInt(LastChars(ncall.note)).kind # "ok"
         \/ ~KnownSymbol(ButLast(ncall.note))
    ELSE ~KnownSymbol(ncall.note)

\* C10 (as claimed): every call of key_num, note_freq or major_chord_keys
\* with an unknown symbol fails with a lookup error (KeyError) and with no
\* other kind of error.
C10_UnknownIsLookupError ==
    (Done /\ UnknownSymbolCall) => nres.kind = "KeyError"

\* C10 (amended): a call with an unknown symbol never returns a value; it
\* fails with KeyError, except that note_freq with a falsy octave (None or 0)
\* fails with ValueError when the last character of the string is not a
\* decimal digit, before any table is consulted.
C10_UnknownSymbolErrors ==
    /\ (Done /\ ncall.fn \in {"key_num", "major_chord_keys"} /\ ~KnownSymbol(ncall.note))
           => nres.kind = "KeyError"
    /\ (Done /\ ncall.fn = "note_freq" /\ ~Falsy(ncall.octave) /\ ~KnownSymbol(ncall.note))
           => nres.kind = "KeyError"
    /\ (Done /\ ncall.fn = "note_freq" /\ Falsy(ncall.octave))
           => IF Len(ncall.note) = 0 \/ ~IsDigit(ncall.note[Len(ncall.note)])
              THEN nres.kind = "ValueError"
              ELSE (~KnownSymbol(ButLast(ncall.note)) => nres.kind = "KeyError")

\* note_freq("H") has failed in the octave parse, not in a lookup
C10_Witness ==
    /\ Done /\ ncall.fn = "note_freq"
    /\ ncall.note = <<"H">> /\ ncall.octave = None
    /\ nres.kind = "ValueError"

\* the piano key numbers of the pairs returned by major_chord_keys
ChordKeyNums(pairs) == [i \in 1..Len(pairs) |-> key_num(pairs[i][1], pairs[i][2]).val]

\* C12 (as claimed): for each of the twelve roots and any octave, the key
\* numbers of the four pairs returned by major_chord_keys are strictly
\* increasing, with successive intervals of exactly 4, 3 and 4 semitones
\* (root, major third, perfect fifth, major seventh).
C12_MajorSeventh ==
    (/\ Done /\ ncall.fn = "major_chord_keys" /\ KnownSymbol(ncall.note))
    => LET k == ChordKeyNums(nres.val)
       IN  /\ Len(k) = 4
           /\ k[2] - k[1] = 4
           /\ k[3] - k[2] = 3
           /\ k[4] - k[3] = 4

====
